---- MODULE Spec2Model ----
(***************************************************************************)
(* A model of uWS::TopicTree (src/src/TopicTreeDraft.h): the topic trie,   *)
(* subscribe, the wildcard-aware publish walk, unsubscribeAll with         *)
(* trimTree, the unimplemented unsubscribe, and the batched drain.         *)
(*                                                                         *)
(* Representation.                                                         *)
(*  - A Topic* is a node id: NULL is nullptr, root is the node allocated   *)
(*    by the member initialiser, and every `new Topic` takes the next id.  *)
(*    Nodes are never freed by the code, so a node detached from the tree  *)
(*    stays in `topics` and can still be named by a subscriber's           *)
(*    subscriptions list or by triggeredTopics.                            *)
(*  - A Subscriber* is a number (its address); std::set<Subscriber *>      *)
(*    iterates in ascending order and UINTPTR_MAX is above every address.  *)
(*  - A topic string is the sequence of its '/'-separated segments, which  *)
(*    is what the find('/')/substr loop of subscribe and publish walks;    *)
(*    the byte offset `start` is the index of the next segment, and        *)
(*    stop = npos is "no segment is left".                                 *)
(*  - std::string payloads are TLA+ strings, appended with \o.             *)
(*  - The uint64_t intersection mask is the set of its one-bits.           *)
(***************************************************************************)
EXTENDS Integers, Sequences, FiniteSets, TLC

(* ------------------------------ bounds -------------------------------- *)

\* Subscribers live at addresses 1..MaxSubscriber.
MaxSubscriber == 2

\* At most this many Topic nodes are ever allocated (the root included).
MaxTopics == 3

\* Subscribed patterns have at most MaxDepth segments, published topics
\* at most MaxDepth + 1.
MaxDepth == 2

\* publish is called at most this many times (messageId stays below it).
MaxMessageId == 2

\* The subscriptions lists of all subscribers hold at most this many entries
\* together (subscribe is called at most this many times).
MaxSubscriptions == 2

\* The log of callback invocations of one drain keeps this many entries
\* beyond the number of subscribers; later invocations are not recorded.
LogSlack == 2

(* ----------------------------- constants ------------------------------ *)

\* Topic *triggeredTopics[64]
Capacity == 64

\* The width of `int`, the type of the literal 1 in (1 << i).
IntBits == 32

\* The width of uint64_t intersection.
MaskBits == 64

NULL == 0

\* Topic *root = new Topic
root == 1

Subscribers == 1 .. MaxSubscriber

\* (Subscriber *) UINTPTR_MAX: above every subscriber address.
UINTPTR_MAX == MaxSubscriber + 1

\* What reading *subs.begin() of an empty set may yield: any pointer value.
Garbage == 0 .. UINTPTR_MAX

\* The callback invocations of one drain that the log keeps.
MaxDelivered == MaxSubscriber + LogSlack

PatternSegments == {"a", "+", "#"}

\* A published topic may hold a segment that is literally "+".
TopicSegments == {"a", "b", "+"}

\* A published message may be the empty string.
Messages == {"x", "y", ""}

SeqsUpTo(S, n) == UNION {[1 .. k -> S] : k \in 1 .. n}

Patterns == SeqsUpTo(PatternSegments, MaxDepth)
Topics == SeqsUpTo(TopicSegments, MaxDepth + 1)

(* ------------------------------- state -------------------------------- *)

VARIABLES
    topics,            \* node id -> struct Topic, for every allocated node
    subscriptions,     \* Subscriber::subscriptions, per subscriber
    messageId,         \* TopicTree::messageId
    triggeredTopics,   \* triggeredTopics[0 .. numTriggeredTopics - 1]
    min,               \* TopicTree::min
    pc,                \* "merge" inside drain's merge loop, "returned" when
                       \* the call made last was a drain, else "idle"
    it,                \* drain: it[i], a position in the sorted subs of node i
    end,               \* drain: end[i], the position past the last subscriber
    nonEmpty,          \* drain: the loop counter nonEmpty
    intersectionCache, \* drain: mask -> cached payload
    delivered,         \* the calls cb(subscriber, payload) of the drain that
                       \* is running or was the call made last
    publishedSince,    \* history: the subscribers for which publish has been
                       \* called after their latest unsubscribeAll, with no
                       \* subscribe of theirs since
    minIndeterminate,  \* history: a publish of this batch has compared min
                       \* with *subs.begin() of an empty set
    visitedTwice,      \* history: the call made last was a publish whose
                       \* walk reached one node along several branches
    constructions      \* history: the payloads the running drain has built
                       \* (the passes through lines 299-311)

vars == <<topics, subscriptions, messageId, triggeredTopics, min, pc, it, end,
          nonEmpty, intersectionCache, delivered, publishedSince,
          minIndeterminate, visitedTwice, constructions>>

numTriggeredTopics == Len(triggeredTopics)

EmptyMap == <<>>

\* struct Topic, as `new Topic` followed by subscribe's field assignments.
NewTopic(name, parent) ==
    [name |-> name, parent |-> parent, triggered |-> FALSE,
     children |-> EmptyMap, wildcardChild |-> NULL,
     terminatingWildcardChild |-> NULL, messages |-> EmptyMap, subs |-> {}]

(* ------------------------------ helpers ------------------------------- *)

SetMin(S) == CHOOSE x \in S : \A y \in S : x <= y

\* The ascending iteration order of a std::set / the keys of a std::map.
RECURSIVE Sorted(_)
Sorted(S) == IF S = {} THEN <<>> ELSE <<SetMin(S)>> \o Sorted(S \ {SetMin(S)})

\* map.erase(key)
Erase(map, key) == [k \in DOMAIN map \ {key} |-> map[k]]

\* map[key] = value
Put(map, key, value) == (key :> value) @@ map

RECURSIVE SumLen(_, _)
SumLen(L, S) ==
    IF S = {} THEN 0
    ELSE LET s == CHOOSE x \in S : TRUE IN Len(L[s]) + SumLen(L, S \ {s})

(* ------------------------------ trimTree ------------------------------ *)

\* trimTree(topic): cull unused nodes from leaf to root.
RECURSIVE trimTree(_, _)

\* trimTree that erases the node from its parent's children and leaves the
\* parent's wildcardChild and terminatingWildcardChild as they are.
trimTreeKeepsWildcard(T, topic) ==
    IF /\ T[topic].subs = {}
       /\ DOMAIN T[topic].children = {}
       /\ T[topic].terminatingWildcardChild = 0
       /\ T[topic].wildcardChild = 0
    THEN LET parent == T[topic].parent
             T1 == [T EXCEPT ![parent].children =
                        [k \in DOMAIN @ \ {T[topic].name} |-> @[k]]]
         IN  IF parent # root THEN trimTree(T1, parent) ELSE T1
    ELSE T

trimTree(T, topic) ==
    IF /\ T[topic].subs = {}
       /\ DOMAIN T[topic].children = {}
       /\ T[topic].terminatingWildcardChild = NULL
       /\ T[topic].wildcardChild = NULL
    THEN LET parent == T[topic].parent
             name == T[topic].name
             T1 == [T EXCEPT
                      ![parent].terminatingWildcardChild =
                          IF name = "#" THEN NULL ELSE @,
                      ![parent].wildcardChild =
                          IF name = "+" THEN NULL ELSE @,
                      ![parent].children = Erase(@, name)]
         IN  IF parent # root THEN trimTree(T1, parent) ELSE T1
    ELSE T

(* ------------------------------ subscribe ----------------------------- *)

RECURSIVE subscribeWalk(_, _, _, _)

\* subscribeWalk with a lookup that never finds the segment: every segment
\* gets a new node, which takes the place of the child of that name.
subscribeWalkAlwaysNew(T, iterator, topic, i) ==
    IF i > Len(topic) THEN [topics |-> T, iterator |-> iterator]
    ELSE LET segment == topic[i]
             newTopic == Cardinality(DOMAIN T) + 1
             T1 == [n \in DOMAIN T \cup {newTopic} |->
                      IF n = newTopic
                      THEN [name |-> segment, parent |-> iterator,
                            triggered |-> FALSE, children |-> <<>>,
                            wildcardChild |-> 0,
                            terminatingWildcardChild |-> 0,
                            messages |-> <<>>, subs |-> {}]
                      ELSE IF n = iterator
                      THEN [T[n] EXCEPT
                              !.children = (segment :> newTopic) @@ @,
                              !.wildcardChild =
                                  IF segment = "+" THEN newTopic ELSE @,
                              !.terminatingWildcardChild =
                                  IF segment = "#" THEN newTopic ELSE @]
                      ELSE T[n]]
         IN  subscribeWalk(T1, newTopic, topic, i + 1)

\* The loop of subscribe from segment i on: follow or create one child per
\* segment. Yields the tree and the node the walk ends at.
subscribeWalk(T, iterator, topic, i) ==
    IF i > Len(topic) THEN [topics |-> T, iterator |-> iterator]
    ELSE LET segment == topic[i] IN
         IF segment \in DOMAIN T[iterator].children
         THEN subscribeWalk(T, T[iterator].children[segment], topic, i + 1)
         ELSE LET newTopic == Cardinality(DOMAIN T) + 1
                  T1 == [n \in DOMAIN T \cup {newTopic} |->
                           IF n = newTopic THEN NewTopic(segment, iterator)
                           ELSE IF n = iterator
                           THEN [T[n] EXCEPT
                                   !.children = Put(@, segment, newTopic),
                                   !.wildcardChild =
                                       IF segment = "+" THEN newTopic ELSE @,
                                   !.terminatingWildcardChild =
                                       IF segment = "#" THEN newTopic ELSE @]
                           ELSE T[n]]
              IN  subscribeWalk(T1, newTopic, topic, i + 1)

\* subscribe(topic, subscriber) on the tree T and the subscriptions lists L.
subscribe(T, L, topic, subscriber) ==
    LET w == subscribeWalk(T, root, topic, 1) IN
    [topics |-> [w.topics EXCEPT ![w.iterator].subs = @ \cup {subscriber}],
     subscriptions |-> [L EXCEPT ![subscriber] = Append(@, w.iterator)]]

(* ---------------------------- unsubscribeAll -------------------------- *)

\* The loop of unsubscribeAll over subscriber->subscriptions from entry i.
RECURSIVE unsubscribeLoop(_, _, _, _)
unsubscribeLoop(T, list, subscriber, i) ==
    IF i > Len(list) THEN T
    ELSE LET topic == list[i]
             T1 == [T EXCEPT ![topic].subs = @ \ {subscriber}]
         IN  unsubscribeLoop(trimTree(T1, topic), list, subscriber, i + 1)

\* unsubscribeAll(subscriber); the subscriptions list is left as it is.
unsubscribeAll(T, L, subscriber) ==
    IF subscriber # NULL THEN unsubscribeLoop(T, L[subscriber], subscriber, 1)
    ELSE T

(* ------------------------------ unsubscribe --------------------------- *)

\* unsubscribe(topic, subscriber): the body is empty, the tree is untouched.
unsubscribe(T, L, topic, subscriber) == T

(* ------------------------------- publish ------------------------------ *)

\* Store the message in node n under the call's id and, when n is not yet
\* triggered, append it to the batch and lower min to *n->subs.begin().
\* b is [topics, triggeredTopics, min, indeterminate, visits]; garbage is
\* what *begin() reads when subs is empty, indeterminate tells whether min
\* has been compared with such a value, and visits lists the nodes this
\* call has stored its message in, in order.

\* Trigger that appends the node to the batch without setting its flag.
TriggerLeavesFlag(b, n, id, message, garbage) ==
    [b EXCEPT !.topics[n].messages = (id :> message) @@ @,
              !.triggeredTopics =
                  IF b.topics[n].triggered THEN @ ELSE Append(@, n),
              !.visits = Append(@, n)]

\* Trigger that appends the node to the batch on every store.
TriggerAlwaysAppends(b, n, id, message, garbage) ==
    [b EXCEPT !.topics[n].messages = (id :> message) @@ @,
              !.topics[n].triggered = TRUE,
              !.triggeredTopics = Append(@, n),
              !.visits = Append(@, n)]

Trigger(b, n, id, message, garbage) ==
    LET T1 == [b.topics EXCEPT ![n].messages = Put(@, id, message)] IN
    IF ~ b.topics[n].triggered
    THEN LET empty == b.topics[n].subs = {}
             first == IF empty THEN garbage ELSE SetMin(b.topics[n].subs)
         IN  [topics |-> [T1 EXCEPT ![n].triggered = TRUE],
              triggeredTopics |-> Append(b.triggeredTopics, n),
              min |-> IF first < b.min THEN first ELSE b.min,
              indeterminate |-> b.indeterminate \/ empty,
              visits |-> Append(b.visits, n)]
    ELSE [b EXCEPT !.topics = T1, !.visits = Append(@, n)]

RECURSIVE publishWalk(_, _, _, _, _, _, _)

\* publishWalk without the recursion into wildcardChild.
publishWalkNoWildcard(b, iterator, i, topic, id, message, garbage) ==
    IF i > Len(topic)
    THEN Trigger(b, iterator, id, message, garbage)
    ELSE LET segment == topic[i]
             twc == b.topics[iterator].terminatingWildcardChild
             b1 == IF twc # NULL THEN Trigger(b, twc, id, message, garbage)
                   ELSE b
         IN  IF segment \notin DOMAIN b1.topics[iterator].children THEN b1
             ELSE publishWalk(b1, b1.topics[iterator].children[segment],
                              i + 1, topic, id, message, garbage)

\* The private publish(iterator, start, stop, topic, message), entered with
\* segment i as the next one to read.
publishWalk(b, iterator, i, topic, id, message, garbage) ==
    IF i > Len(topic)
    THEN Trigger(b, iterator, id, message, garbage)
    ELSE LET segment == topic[i]
             twc == b.topics[iterator].terminatingWildcardChild
             b1 == IF twc # NULL THEN Trigger(b, twc, id, message, garbage)
                   ELSE b
             wc == b1.topics[iterator].wildcardChild
             b2 == IF wc # NULL
                   THEN publishWalk(b1, wc, i + 1, topic, id, message, garbage)
                   ELSE b1
         IN  IF segment \notin DOMAIN b2.topics[iterator].children THEN b2
             ELSE publishWalk(b2, b2.topics[iterator].children[segment],
                              i + 1, topic, id, message, garbage)

\* The public publish(topic, message), before messageId++.
publish(T, batch, m, ind, id, topic, message, garbage) ==
    publishWalk([topics |-> T, triggeredTopics |-> batch, min |-> m,
                 indeterminate |-> ind, visits |-> <<>>],
                root, 1, topic, id, message, garbage)

(* -------------------------------- drain ------------------------------- *)

\* (1 << i) as it widens to uint64_t, by its one-bits. The literal 1 is an
\* int: bits 0..30 are themselves, 1 << 31 is INT_MIN and sign-extends to
\* bits 31..63, and a count of 32 or more is undefined: either the count is
\* taken modulo the width (wrap) or the result is 0.
Shl1(i, wrap) ==
    IF i >= IntBits /\ ~ wrap THEN {}
    ELSE LET j == i % IntBits IN
         IF j < IntBits - 1 THEN {j} ELSE (IntBits - 1) .. (MaskBits - 1)

\* One pass of the inner for loop of drain from batch index i (1-based; the
\* code's index is i - 1). acc holds it, nonEmpty, nextMin, intersection and
\* the matched nodes perSubscriberIntersectingTopicMessages.
RECURSIVE mergeLoop(_, _, _, _, _, _, _)
mergeLoop(T, batch, e, m, i, acc, wrap) ==
    IF i > Len(batch) THEN acc
    ELSE LET s == Sorted(T[batch[i]].subs)
             live == acc.it[i] # e[i]
         IN  IF live /\ s[acc.it[i]] = m
             THEN LET next == acc.it[i] + 1 IN
                  mergeLoop(T, batch, e, m, i + 1,
                      [it |-> [acc.it EXCEPT ![i] = next],
                       nonEmpty |-> IF next = e[i] THEN acc.nonEmpty - 1
                                    ELSE acc.nonEmpty,
                       nextMin |-> IF next # e[i] /\ acc.nextMin > s[next]
                                   THEN s[next] ELSE acc.nextMin,
                       intersection |->
                           acc.intersection \cup Shl1(i - 1, wrap),
                       per |-> Append(acc.per, batch[i])],
                      wrap)
             ELSE mergeLoop(T, batch, e, m, i + 1,
                      [acc EXCEPT !.nextMin =
                          IF live /\ @ > s[acc.it[i]] THEN s[acc.it[i]]
                          ELSE @],
                      wrap)

\* complete.insert(begin, end) for each matched node from entry i: a key
\* already in `complete` keeps its value.
RECURSIVE buildComplete(_, _, _, _)
buildComplete(T, per, i, complete) ==
    IF i > Len(per) THEN complete
    ELSE buildComplete(T, per, i + 1, complete @@ T[per[i]].messages)

\* res.append(p.second) for the entries of `complete` with the given keys,
\* in ascending key order.
RECURSIVE appendAll(_, _)
appendAll(complete, keys) ==
    IF keys = <<>> THEN ""
    ELSE complete[Head(keys)] \o appendAll(complete, Tail(keys))

\* The linear payload of the matched nodes.
linear(T, per) ==
    LET complete == buildComplete(T, per, 1, EmptyMap)
    IN  appendAll(complete, Sorted(DOMAIN complete))

\* clearTriggered that empties the messages and leaves the triggered flags.
clearTriggeredKeepsFlag(T, batch) ==
    [n \in DOMAIN T |->
        IF \E i \in 1 .. Len(batch) : batch[i] = n
        THEN [T[n] EXCEPT !.messages = <<>>]
        ELSE T[n]]

\* cb(subscriber, payload), recorded while the log has room.
cb(log, subscriber, payload) ==
    IF Len(log) < MaxDelivered THEN Append(log, <<subscriber, payload>>)
    ELSE log

\* The reset at the end of drain: messages.clear() and triggered = false
\* for every node of the batch.
clearTriggered(T, batch) ==
    [n \in DOMAIN T |->
        IF \E i \in 1 .. Len(batch) : batch[i] = n
        THEN [T[n] EXCEPT !.messages = EmptyMap, !.triggered = FALSE]
        ELSE T[n]]

(* ------------------------------- actions ------------------------------ *)

Init ==
    /\ topics = (root :> NewTopic("", NULL))
    /\ subscriptions = [s \in Subscribers |-> <<>>]
    /\ messageId = 0
    /\ triggeredTopics = <<>>
    /\ min = UINTPTR_MAX
    /\ pc = "idle"
    /\ it = <<>>
    /\ end = <<>>
    /\ nonEmpty = 0
    /\ intersectionCache = EmptyMap
    /\ delivered = <<>>
    /\ publishedSince = {}
    /\ minIndeterminate = FALSE
    /\ visitedTwice = FALSE
    /\ constructions = 0

\* The batch has outgrown triggeredTopics[64]: the store went past the
\* array and what the program does from there on is undefined.
Overflowed == numTriggeredTopics > Capacity

\* Subscriber s has subscribed and unsubscribeAll(s) was called since: only
\* unsubscribeAll takes s out of a subscriber set, and it visits every node
\* s was ever attached to.
Unsubscribed(s) ==
    /\ subscriptions[s] # <<>>
    /\ \A n \in DOMAIN topics : s \notin topics[n].subs

\* No call is running: the tree is single-threaded and the callback does
\* not re-enter it.
Callable == pc # "merge" /\ ~ Overflowed

Subscribe(topic, subscriber) ==
    /\ Callable
    /\ SumLen(subscriptions, Subscribers) < MaxSubscriptions
    /\ LET r == subscribe(topics, subscriptions, topic, subscriber) IN
       /\ Cardinality(DOMAIN r.topics) <= MaxTopics
       /\ topics' = r.topics
       /\ subscriptions' = r.subscriptions
    /\ pc' = "idle"
    /\ delivered' = <<>>
    /\ publishedSince' = publishedSince \ {subscriber}
    /\ visitedTwice' = FALSE
    /\ UNCHANGED <<messageId, triggeredTopics, min, it, end, nonEmpty,
                   intersectionCache, minIndeterminate, constructions>>

UnsubscribeAll(subscriber) ==
    /\ Callable
    /\ topics' = unsubscribeAll(topics, subscriptions, subscriber)
    /\ pc' = "idle"
    /\ delivered' = <<>>
    /\ publishedSince' = publishedSince \ {subscriber}
    /\ visitedTwice' = FALSE
    /\ UNCHANGED <<subscriptions, messageId, triggeredTopics, min, it, end,
                   nonEmpty, intersectionCache, minIndeterminate,
                   constructions>>

\* unsubscribe(topic, subscriber): the body is empty.
Unsubscribe(topic, subscriber) ==
    /\ Callable
    /\ topics' = unsubscribe(topics, subscriptions, topic, subscriber)
    /\ pc' = "idle"
    /\ delivered' = <<>>
    /\ visitedTwice' = FALSE
    /\ UNCHANGED <<subscriptions, publishedSince, minIndeterminate,
                   messageId, triggeredTopics, min, it, end, nonEmpty,
                   intersectionCache, constructions>>

Publish(topic, message, garbage) ==
    /\ Callable
    /\ LET b == publish(topics, triggeredTopics, min, minIndeterminate,
                        messageId, topic, message, garbage) IN
       /\ topics' = b.topics
       /\ triggeredTopics' = b.triggeredTopics
       /\ min' = b.min
       /\ minIndeterminate' = b.indeterminate
       /\ visitedTwice' = \E j, k \in 1 .. Len(b.visits) :
                               j # k /\ b.visits[j] = b.visits[k]
    /\ messageId' = messageId + 1
    /\ pc' = "idle"
    /\ delivered' = <<>>
    /\ publishedSince' = {s \in Subscribers : Unsubscribed(s)}
    /\ UNCHANGED <<subscriptions, it, end, nonEmpty, intersectionCache,
                   constructions>>

\* drain() up to the merge loop: return at once on an empty batch, else
\* set one cursor per triggered node.
DrainBegin ==
    /\ Callable
    /\ delivered' = <<>>
    /\ visitedTwice' = FALSE
    /\ constructions' = 0
    /\ IF numTriggeredTopics = 0
       THEN /\ pc' = "returned"
            /\ UNCHANGED <<it, end, nonEmpty, intersectionCache>>
       ELSE /\ pc' = "merge"
            /\ it' = [i \in 1 .. numTriggeredTopics |-> 1]
            /\ end' = [i \in 1 .. numTriggeredTopics |->
                          Cardinality(topics[triggeredTopics[i]].subs) + 1]
            /\ nonEmpty' = numTriggeredTopics
            /\ intersectionCache' = EmptyMap
    /\ UNCHANGED <<topics, subscriptions, messageId, triggeredTopics, min,
                   publishedSince, minIndeterminate>>

\* One iteration of `for (int nonEmpty = numTriggeredTopics; nonEmpty; )`.
DrainStep(wrap) ==
    /\ pc = "merge"
    /\ nonEmpty # 0
    /\ LET acc == mergeLoop(topics, triggeredTopics, end, min, 1,
                            [it |-> it, nonEmpty |-> nonEmpty,
                             nextMin |-> UINTPTR_MAX, intersection |-> {},
                             per |-> <<>>], wrap)
           miss == \/ acc.intersection \notin DOMAIN intersectionCache
                   \/ Len(intersectionCache[acc.intersection]) = 0
           res == IF miss THEN linear(topics, acc.per)
                  ELSE intersectionCache[acc.intersection]
       IN  /\ it' = acc.it
           /\ nonEmpty' = acc.nonEmpty
           /\ intersectionCache' = Put(intersectionCache, acc.intersection, res)
           /\ delivered' = cb(delivered, min, res)
           /\ constructions' =
                 IF miss /\ Len(delivered) < MaxDelivered
                 THEN constructions + 1 ELSE constructions
           /\ min' = acc.nextMin
    /\ UNCHANGED <<topics, subscriptions, messageId, triggeredTopics, pc, end,
                   publishedSince, minIndeterminate, visitedTwice>>

\* The end of drain, once the merge loop has left: clear the batch.
DrainClear ==
    /\ pc = "merge"
    /\ nonEmpty = 0
    /\ topics' = clearTriggered(topics, triggeredTopics)
    /\ triggeredTopics' = <<>>
    /\ pc' = "returned"
    /\ it' = <<>>
    /\ end' = <<>>
    /\ intersectionCache' = EmptyMap
    /\ minIndeterminate' = FALSE
    /\ constructions' = 0
    /\ UNCHANGED <<subscriptions, messageId, min, nonEmpty, delivered,
                   publishedSince, visitedTwice>>

\* publish reads *subs.begin() of an empty set only when it newly triggers
\* a node nobody is subscribed to: what the read yields matters only for a
\* topic whose walk does so.
GarbageChoices(topic) ==
    IF publish(topics, triggeredTopics, min, FALSE, messageId, topic, "",
               UINTPTR_MAX).indeterminate
    THEN Garbage ELSE {UINTPTR_MAX}

\* The shift count reaches the width of int only in a batch above it.
WrapChoices == IF numTriggeredTopics > IntBits THEN BOOLEAN ELSE {TRUE}

Next ==
    \/ \E t \in Patterns, s \in Subscribers : Subscribe(t, s)
    \/ \E s \in Subscribers : UnsubscribeAll(s)
    \/ \E t \in Patterns, s \in Subscribers : Unsubscribe(t, s)
    \/ \E t \in Topics, m \in Messages :
          /\ messageId < MaxMessageId
          /\ \E g \in GarbageChoices(t) : Publish(t, m, g)
    \/ DrainBegin
    \/ \E wrap \in WrapChoices : DrainStep(wrap)
    \/ DrainClear

Spec == Init /\ [][Next]_vars

(* ------------------- a batch that fills the 64 slots ------------------ *)

\* One topic per slot of triggeredTopics and one more: "1", "2", ...
CapNodes == Capacity + 1

CapTopic(i) == <<ToString(i)>>

\* The node subscribe creates for CapTopic(i): nodes are numbered in the
\* order they are created, the root first.
CapNode(i) == root + i

\* A tree in which subscriber 1 has subscribed to CapTopic(1), ...,
\* CapTopic(CapNodes) in turn, subscriber 2 then to CapTopic(1), ...,
\* CapTopic(IntBits), and nothing has been published: the root has one
\* child per topic, each child holds its subscribers, and each subscriber's
\* list holds its children in order.
InitCap ==
    LET rootTopic ==
            [NewTopic("", NULL) EXCEPT
                !.children =
                    [name \in {ToString(i) : i \in 1 .. CapNodes} |->
                        CapNode(CHOOSE i \in 1 .. CapNodes :
                                    ToString(i) = name)]]
        child(i) == [NewTopic(ToString(i), root) EXCEPT
                        !.subs = IF i <= IntBits THEN {1, 2} ELSE {1}]
    IN  /\ topics = [n \in 1 .. CapNode(CapNodes) |->
                        IF n = root THEN rootTopic ELSE child(n - root)]
        /\ subscriptions =
              [s \in Subscribers |->
                  IF s = 1 THEN [i \in 1 .. CapNodes |-> CapNode(i)]
                  ELSE IF s = 2 THEN [i \in 1 .. IntBits |-> CapNode(i)]
                  ELSE <<>>]
        /\ messageId = 0
        /\ triggeredTopics = <<>>
        /\ min = UINTPTR_MAX
        /\ pc = "idle"
        /\ it = <<>>
        /\ end = <<>>
        /\ nonEmpty = 0
        /\ intersectionCache = EmptyMap
        /\ delivered = <<>>
        /\ publishedSince = {}
        /\ minIndeterminate = FALSE
    /\ visitedTwice = FALSE
    /\ constructions = 0

\* The topics are published in turn, each triggering the next node, with a
\* drain at any point; CapNodes publish calls are made in all.
NextCap ==
    \/ \E i \in 1 .. CapNodes :
          /\ numTriggeredTopics = i - 1
          /\ messageId < CapNodes
          /\ Publish(CapTopic(i), "x", UINTPTR_MAX)
    \/ DrainBegin
    \/ \E wrap \in WrapChoices : DrainStep(wrap)
    \/ DrainClear

SpecCap == InitCap /\ [][NextCap]_vars

(* ---------------------- vocabulary of the properties ------------------ *)

Range(f) == {f[i] : i \in DOMAIN f}

\* The nodes of the triggered batch.
Batch == Range(triggeredTopics)

\* The subscribers attached to at least one node of the batch.
Touched == UNION {topics[n].subs : n \in Batch}

\* The subscribers the callback was invoked for.
DeliveredTo == {delivered[k][1] : k \in 1 .. Len(delivered)}

\* The merge loop of the running drain has left.
LoopDone == pc = "merge" /\ nonEmpty = 0

\* The messages of the batch nodes subscriber s is attached to, by
\* sequence id. One publish call stores the same message under its id in
\* every node it reaches.
Relevant(s) ==
    LET ns == {n \in Batch : s \in topics[n].subs}
        ids == UNION {DOMAIN topics[n].messages : n \in ns}
    IN  [id \in ids |->
            topics[CHOOSE n \in ns : id \in DOMAIN topics[n].messages]
                .messages[id]]

RECURSIVE Concat(_, _)
Concat(map, ids) ==
    IF ids = {} THEN ""
    ELSE LET lo == CHOOSE x \in ids : \A y \in ids : x <= y
         IN  map[lo] \o Concat(map, ids \ {lo})

\* What subscriber s is owed by the batch: each relevant message once, in
\* publish order.
Expected(s) == Concat(Relevant(s), DOMAIN Relevant(s))

\* The nodes the trie holds: those reachable from n through children.
RECURSIVE Descendants(_, _)
Descendants(T, n) ==
    {n} \cup UNION {Descendants(T, c) : c \in Range(T[n].children)}

Reachable == Descendants(topics, root)

\* The pattern a node stands for: the segments from the root down to it.
RECURSIVE Path(_, _)
Path(T, n) ==
    IF T[n].parent = NULL THEN <<>>
    ELSE Append(Path(T, T[n].parent), T[n].name)

\* The nodes a publish of topic tp stores its message in.
PublishTargets(tp) ==
    LET b == publish(topics, triggeredTopics, min, minIndeterminate,
                     messageId, tp, "x", UINTPTR_MAX)
    IN  {n \in DOMAIN topics : messageId \in DOMAIN b.topics[n].messages}

\* Topic tp starts with the segments of the literal prefix p.
StartsWith(tp, p) ==
    Len(tp) >= Len(p) /\ \A i \in 1 .. Len(p) : tp[i] = p[i]

\* Topic tp has as many segments as pattern p, each equal to p's or under
\* a "+".
MatchesSegmentwise(tp, p) ==
    Len(tp) = Len(p) /\ \A i \in 1 .. Len(p) : p[i] = "+" \/ p[i] = tp[i]

\* The node the segments of pattern tp lead to from node n, or NULL.
RECURSIVE Find(_, _, _, _)
Find(T, n, tp, i) ==
    IF i > Len(tp) THEN n
    ELSE IF tp[i] \in DOMAIN T[n].children
    THEN Find(T, T[n].children[tp[i]], tp, i + 1)
    ELSE NULL

Terminal(tp) == Find(topics, root, tp, 1)

\* A node other than the root with no subscriber and no child.
EmptyLeaf(T, n) == n # root /\ T[n].subs = {} /\ DOMAIN T[n].children = {}

\* Two trees hold the same nodes with the same fields.
SameTree(T1, T2) ==
    DOMAIN T1 = DOMAIN T2 /\ \A n \in DOMAIN T1 : T1[n] = T2[n]

\* list without the later occurrences of an entry already in it.
RECURSIVE Dedup(_)
Dedup(list) ==
    IF list = <<>> THEN <<>>
    ELSE LET front == Dedup(SubSeq(list, 1, Len(list) - 1))
             last == list[Len(list)]
         IN  IF last \in Range(front) THEN front ELSE Append(front, last)

(* ------------------------------- claims ------------------------------- *)

\* C1: drain invokes the delivery callback exactly once for each distinct
\* subscriber attached to at least one node of the triggered batch and for
\* no other subscriber identity: while drain runs no invocation is for a
\* subscriber outside the batch's subscriber sets and none is a second
\* invocation for the same subscriber, and when the merge loop has left
\* every such subscriber has been invoked.
ExactlyOncePerSubscriber ==
    (pc = "merge" /\ ~ minIndeterminate) =>
        /\ DeliveredTo \subseteq Touched
        /\ \A j, k \in 1 .. Len(delivered) :
              delivered[j][1] = delivered[k][1] => j = k
        /\ LoopDone => DeliveredTo = Touched

\* C2: the payload handed to a subscriber by drain is the concatenation, in
\* ascending sequence-id order, of the messages of every triggered node the
\* subscriber belongs to, each publish call contributing its message once.
PayloadIsOrderedUnion ==
    (pc = "merge" /\ ~ minIndeterminate) =>
        \A k \in 1 .. Len(delivered) :
            delivered[k][1] \in Subscribers =>
                delivered[k][2] = Expected(delivered[k][1])

\* C3: a terminating wildcard matches zero or more trailing segments: for
\* a subscribed pattern P/# with a literal prefix P, a publish of any topic
\* that equals P or extends P stores the message in the "#" node.
TerminatingWildcardMatchesZeroOrMore ==
    pc # "merge" =>
        \A n \in Reachable :
            LET p == Path(topics, topics[n].parent) IN
            (/\ n # root
             /\ topics[n].name = "#"
             /\ topics[n].subs # {}
             /\ p # <<>>
             /\ Range(p) \cap {"+", "#"} = {})
            => \A tp \in Topics : StartsWith(tp, p) => n \in PublishTargets(tp)

\* C4: a single-level wildcard matches exactly one segment: for a
\* subscribed pattern without "#", a publish stores the message in the
\* pattern's terminal node iff the topic has as many segments as the
\* pattern and every pattern segment is "+" or equals the topic's.
SingleLevelWildcardMatchesOneSegment ==
    pc # "merge" =>
        \A n \in Reachable \ {root} :
            LET p == Path(topics, n) IN
            (topics[n].subs # {} /\ "#" \notin Range(p))
            => \A tp \in Topics :
                  n \in PublishTargets(tp) <=> MatchesSegmentwise(tp, p)

\* C4 witness: a publish has stored its message in the terminal node of a
\* subscribed two-segment pattern that holds a "+".
WildcardPatternReceived ==
    \E n \in Reachable \ {root} :
        LET p == Path(topics, n) IN
        /\ topics[n].subs # {}
        /\ Len(p) = 2
        /\ "+" \in Range(p)
        /\ "#" \notin Range(p)
        /\ topics[n].messages # EmptyMap

\* C5: after unsubscribeAll(S) returns S is in no node's subscriber set,
\* no node of the trie other than the root is left with no subscriber and
\* no child, the root still exists, and a later publish followed by drain
\* makes no delivery to S.
UnsubscribeAllRemovesSubscriber ==
    /\ pc # "merge" =>
          \A s \in Subscribers :
              LET T == unsubscribeAll(topics, subscriptions, s) IN
              /\ \A n \in DOMAIN T : s \notin T[n].subs
              /\ \A n \in Descendants(T, root) : ~ EmptyLeaf(T, n)
              /\ root \in DOMAIN T
    /\ (pc = "merge" /\ ~ minIndeterminate) =>
          \A s \in publishedSince : s \notin DeliveredTo

\* C6: unsubscribe(topic, S) detaches S from the terminal node of that
\* pattern: afterwards S is not in that node's subscriber set.
UnsubscribeDetaches ==
    pc # "merge" =>
        \A tp \in Patterns, s \in Subscribers :
            LET n == Terminal(tp) IN
            (n # NULL /\ s \in topics[n].subs)
            => s \notin unsubscribe(topics, subscriptions, tp, s)[n].subs

\* C8: when a drain returns, every node that was in the batch has no
\* message and triggered = false and the batch is empty; only a publish
\* makes the batch non-empty again; and a drain of an empty batch invokes
\* the callback zero times and changes nothing.
DrainResets ==
    [][/\ (pc = "merge" /\ pc' = "returned") =>
             /\ \A n \in Batch : /\ topics'[n].messages = EmptyMap
                                 /\ ~ topics'[n].triggered
             /\ triggeredTopics' = <<>>
       /\ (numTriggeredTopics = 0 /\ Len(triggeredTopics') # 0) =>
             messageId' = messageId + 1
       /\ (pc # "merge" /\ pc' = "returned") =>
             /\ numTriggeredTopics = 0
             /\ delivered' = <<>>
             /\ UNCHANGED <<topics, subscriptions, messageId,
                            triggeredTopics, min>>]_vars

\* C8 witness: a drain that made deliveries has returned.
DrainReturned ==
    pc = "returned" /\ delivered # <<>> /\ triggeredTopics = <<>>

\* C9: re-subscribing the same subscriber to the same pattern is
\* idempotent. Once S is subscribed to P, another subscribe(P, S) leaves
\* every node and every subscriber set as they are and adds only a
\* repeated entry to S's subscriptions list; and repeated entries never
\* change what unsubscribeAll does to the tree, the one operation that
\* reads the list, so every later call sequence yields the same tree and
\* the same deliveries.
ResubscribeIdempotent ==
    pc # "merge" =>
        /\ \A tp \in Patterns, s \in Subscribers :
              LET n == Terminal(tp) IN
              (n # NULL /\ s \in topics[n].subs) =>
                  LET r == subscribe(topics, subscriptions, tp, s) IN
                  /\ SameTree(r.topics, topics)
                  /\ \A o \in Subscribers :
                        r.subscriptions[o] =
                            IF o = s THEN Append(subscriptions[o], n)
                            ELSE subscriptions[o]
        /\ \A s \in Subscribers :
              unsubscribeAll(topics, subscriptions, s)
                  = unsubscribeAll(topics,
                        [subscriptions EXCEPT ![s] = Dedup(@)], s)

\* C9 witness: a subscriber has subscribed twice to the pattern of a node
\* of the trie and is attached to it.
SubscribedTwice ==
    \E s \in Subscribers :
        \E j, k \in 1 .. Len(subscriptions[s]) :
            /\ j < k
            /\ subscriptions[s][j] = subscriptions[s][k]
            /\ subscriptions[s][j] \in Reachable
            /\ s \in topics[subscriptions[s][j]].subs

\* C7: in every reachable state the triggered batch holds at most 64
\* nodes: a publish that would newly trigger a 65th node is rejected or
\* resolved by a drain, and the node is not recorded past the 64 slots.
BatchWithinCapacity == numTriggeredTopics <= Capacity

\* C10: every drain terminates. The merge loop leaves only when nonEmpty
\* reaches 0 and nonEmpty falls only when a live cursor steps onto its end,
\* so a running loop always has a cursor that is not yet exhausted.
DrainTerminates ==
    (pc = "merge" /\ nonEmpty # 0) =>
        \E i \in 1 .. numTriggeredTopics : it[i] # end[i]

\* C11: a node is detached from its parent only when it has no subscriber
\* and no child, so after any sequence of subscribe and unsubscribeAll
\* calls every node that holds a subscriber is still reachable from the
\* root and a publish of its pattern still reaches it.
SubscribedNodesReachable ==
    \A n \in DOMAIN topics : topics[n].subs # {} => n \in Reachable

\* C12: a subscriber's subscriptions list holds exactly the nodes whose
\* subscriber set holds that subscriber.
SubscriptionsMirrorSubs ==
    \A s \in Subscribers, n \in DOMAIN topics :
        n \in Range(subscriptions[s]) <=> s \in topics[n].subs

\* C13: publish appends to the triggered batch only nodes that have at
\* least one subscriber: every node of the batch has a non-empty subscriber
\* set.
BatchNodesHaveSubscribers ==
    \A n \in Batch : topics[n].subs # {}

\* The number of entries of list that are n.
Count(n, list) == Cardinality({k \in 1 .. Len(list) : list[k] = n})

\* C14: between operations a node is in the triggered batch iff its
\* triggered flag is true, each node is in the batch at most once, and a
\* node's messages map is non-empty only if the node is in the batch.
BatchIsTriggeredSet ==
    pc # "merge" =>
        \A n \in DOMAIN topics :
            /\ n \in Batch <=> topics[n].triggered
            /\ Count(n, triggeredTopics) <= 1
            /\ topics[n].messages # EmptyMap => n \in Batch

\* C14 witness: two publish calls have stored their messages in one node
\* of the batch while another node of the tree is not triggered.
TriggeredTwiceInBatch ==
    /\ pc = "idle"
    /\ \E n \in Batch : Cardinality(DOMAIN topics[n].messages) = 2
    /\ \E n \in Reachable \ (Batch \cup {root}) : ~ topics[n].triggered

\* C15: within one publish call a node gains at most one messages entry,
\* keyed by the call's sequence id, and is appended to the batch at most
\* once, also when the walk reaches it along several branches; and each
\* call uses a sequence id above every earlier one.
PublishStoresOnce ==
    [][messageId' # messageId =>
          /\ messageId' = messageId + 1
          /\ \A n \in DOMAIN topics :
                /\ \A id \in DOMAIN topics[n].messages : id < messageId
                /\ DOMAIN topics'[n].messages
                       \subseteq DOMAIN topics[n].messages \cup {messageId}
                /\ Count(n, triggeredTopics')
                       <= Count(n, triggeredTopics) + 1]_vars

\* C15 witness: a publish has reached one node along several branches and
\* the node is in the batch with the one message.
ReachedAlongSeveralBranches ==
    /\ visitedTwice
    /\ \E n \in Batch : Cardinality(DOMAIN topics[n].messages) = 1

\* C16: for every node reachable from the root, wildcardChild is set iff
\* children has the key "+" and is then that child, and
\* terminatingWildcardChild is set iff children has the key "#" and is then
\* that child.
WildcardPointersInStep ==
    \A n \in Reachable :
        /\ topics[n].wildcardChild # NULL
               <=> "+" \in DOMAIN topics[n].children
        /\ topics[n].wildcardChild # NULL
               => topics[n].children["+"] = topics[n].wildcardChild
        /\ topics[n].terminatingWildcardChild # NULL
               <=> "#" \in DOMAIN topics[n].children
        /\ topics[n].terminatingWildcardChild # NULL
               => topics[n].children["#"] = topics[n].terminatingWildcardChild

\* C16 witness: a wildcard node has been trimmed from its parent and the
\* tree holds a wildcard node that a later subscribe created.
WildcardTrimmedAndRecreated ==
    /\ \E n \in DOMAIN topics \ Reachable : topics[n].name \in {"+", "#"}
    /\ \E n \in Reachable :
          topics[n].wildcardChild # NULL
              \/ topics[n].terminatingWildcardChild # NULL

\* C17: within one drain the payload is built at most once per distinct
\* matched subset of triggered nodes, whatever the messages are, the empty
\* string included. Each distinct matched subset has its key in the cache;
\* drains with a callback for an empty subset are left aside.
ConstructedOncePerSubset ==
    (pc = "merge" /\ ~ minIndeterminate /\ {} \notin DOMAIN intersectionCache)
        => constructions <= Cardinality(DOMAIN intersectionCache)

\* C19: min is consistent with the batch. Between calls, and so at the
\* start of every drain, min is the smallest subscriber over the current
\* subscriber sets of the triggered nodes, and it is the maximum sentinel
\* when the batch is empty.
MinTracksBatch ==
    (pc # "merge" /\ ~ minIndeterminate) =>
        min = IF Touched = {} THEN UINTPTR_MAX ELSE SetMin(Touched)

\* C18: the cache key of a matched subset has exactly the bits of the
\* matched batch indexes, for indexes 31 and above as well, so no two
\* subsets share a key and every subscriber receives the payload built for
\* its own subset: the messages of the triggered nodes it belongs to.
PayloadBuiltForOwnSubset ==
    pc = "merge" =>
        \A k \in 1 .. Len(delivered) :
            delivered[k][2] = Expected(delivered[k][1])

====
